---- MODULE Spec2Model ----
(***************************************************************************)
(* Model of wgpu_session: the Display Context (src/src/context.rs) and the *)
(* session event loop with its three tasks (src/src/main.rs).              *)
(*                                                                         *)
(* Every call into the kernel display subsystem, the GPU backend, the seat *)
(* manager and the input source is recorded, in program order, in `ops`:   *)
(* the calls made by the most recent step.  `kernel` is the state those    *)
(* calls leave behind on the other side of the interface.                  *)
(***************************************************************************)
EXTENDS Integers, Sequences, FiniteSets, TLC

VARIABLES
    render_context,     \* Option<WgpuContext>: <<>> is None, <<c>> is Some(c)
    kernel,             \* device handle open / master held / GPU surface resources alive
    ops,                \* external calls made by the most recent step, in order
    call,               \* the operation the most recent step performed
    res,                \* its result: "ok", "NotReady" or "err"
    ncalls,             \* calls made so far by the caller of SpecCtx
    prev,               \* <<call, res>> of the call before the most recent one
    ctx_dropped,        \* the render loop has destroyed a context on losing control
    proc,               \* the process: "running", "exit_ok", "exit_err", "killed"
    rl_pc,              \* render loop (main): "select", "render", "done"
    has_control,        \* main's local has_control
    control_value,      \* watch::channel<bool>: the latest value sent
    control_sx,         \* its sender (owned by the watcher task) is alive
    rl_changed,         \* control_rx stream of main has an unseen value
    in_changed,         \* libinput_control_rx stream has an unseen value
    exit_q,             \* mpsc exit channel: messages queued
    exit_sx,            \* its sender (owned by the input task) is alive
    watcher_pc,         \* session-activity watcher: "next", "reset", "suspend", "done"
    libinput,           \* input source: "active", "suspended", "shutdown"
    pressed_keys,       \* ModifierState.pressed_keys
    input_pc,           \* input-dispatch task: "select", "done"
    input_has_control,  \* the input-dispatch task's local has_control
    switch_vt,          \* target of the switch_session call of the last step (0: none)
    events,             \* key events the input-dispatch task handled since the last reset
    modes,              \* connector.modes: the mode list of the chosen output
    best_mode           \* the mode selected from it: <<>> is None, <<m>> is Some(m)

ctxVars == <<render_context, kernel, ops, call, res>>

loopVars == <<proc, rl_pc, has_control, exit_q>>

watchVars == <<control_value, control_sx, rl_changed, in_changed>>

watcherVars == <<watcher_pc>>

inputVars == <<pressed_keys, input_pc, input_has_control, switch_vt, exit_sx>>

mainVars == <<loopVars, watchVars, watcherVars, inputVars, libinput>>

callerVars == <<ncalls, prev>>

\* inputs and results of the functions checked on their own
pureVars == <<events, modes, best_mode>>

vars == <<ctxVars, callerVars, ctx_dropped, mainVars, pureVars>>

-----------------------------------------------------------------------------
(* Bounds, and the failures the environment can inject into a call.        *)

\* calls the caller of SpecCtx makes
MaxCalls == 6

\* key events the key handler is given between two resets of the tracker
MaxEvents == 3

\* modes in the mode list of the chosen output
MaxModes == 3

\* the fallible steps of WgpuContext::new / resume, in program order
NewFailures == {"none", "open", "set_master", "set_cap", "resources", "wgpu"}

-----------------------------------------------------------------------------
(* The other side of the interface: what each call does to the device.     *)

KernelInit == [fd |-> FALSE, master |-> FALSE, surf |-> FALSE]

Apply(k, op) ==
    CASE op = "open"         -> [k EXCEPT !.fd = TRUE]
      [] op = "set_master"   -> [k EXCEPT !.master = TRUE]
      [] op = "drop_master"  -> [k EXCEPT !.master = FALSE]
      [] op = "close"        -> [k EXCEPT !.fd = FALSE, !.master = FALSE]
      [] op = "create_wgpu"  -> [k EXCEPT !.surf = TRUE]
      [] op = "destroy_wgpu" -> [k EXCEPT !.surf = FALSE]
      [] op = "exit"         -> KernelInit
      [] OTHER               -> k

RECURSIVE Run(_, _)
Run(k, s) == IF s = <<>> THEN k ELSE Run(Apply(k, Head(s)), Tail(s))

\* the calls of s that precede its i-th
Before(s, i) == SubSeq(s, 1, i - 1)

Has(s, op) == \E i \in 1..Len(s) : s[i] = op

-----------------------------------------------------------------------------
(* src/src/context.rs                                                      *)

open_drm_device(f) ==
    IF f = "open" THEN [ok |-> FALSE, ops |-> <<"open_err">>]
    ELSE [ok |-> TRUE, ops |-> <<"open">>]

setup_drm_master(f) ==
    IF f = "set_master" THEN [ok |-> FALSE, ops |-> <<"set_master_err">>]
    ELSE IF f = "set_cap" THEN [ok |-> FALSE, ops |-> <<"set_master", "set_cap_err">>]
    ELSE [ok |-> TRUE, ops |-> <<"set_master", "set_cap">>]

release_drm_master(rf) ==
    IF rf THEN [ok |-> FALSE, ops |-> <<"drop_master_err">>]
    ELSE [ok |-> TRUE, ops |-> <<"drop_master">>]

setup_drm_resources(f) ==
    IF f = "resources" THEN [ok |-> FALSE, ops |-> <<"select_err">>]
    ELSE [ok |-> TRUE, ops |-> <<"select">>]

\* impl Drop for DrmState, followed by the drop of its fields (the device handle)
drop_DrmState(d, rf) ==
    (IF d.has_master THEN release_drm_master(rf).ops ELSE <<>>) \o <<"close">>

\* dropping the value of an Option<WgpuState> field
drop_WgpuState(present) == IF present THEN <<"destroy_wgpu">> ELSE <<>>

\* struct WgpuContext { drm_state, wgpu_state }: fields drop in declaration order
drop_WgpuContext(c, rf) == drop_DrmState(c, rf) \o drop_WgpuState(c.wgpu_state)

\* dropping an Option<WgpuContext>
drop_render_context(rc, rf) ==
    IF rc = <<>> THEN <<>> ELSE drop_WgpuContext(rc[1], rf)

create_wgpu_resources(c, f) ==
    IF f = "wgpu"
    THEN [ok |-> FALSE, ctx |-> c, ops |-> <<"create_wgpu_err">>]
    ELSE [ok |-> TRUE, ctx |-> [c EXCEPT !.wgpu_state = TRUE], ops |-> <<"create_wgpu">>]

destroy_wgpu_resources(c) ==
    [ctx |-> [c EXCEPT !.wgpu_state = FALSE], ops |-> drop_WgpuState(c.wgpu_state)]

\* WgpuContext::new: `?` returns at the first failure, dropping what is in scope
new(f, rf) ==
    LET o == open_drm_device(f)
        m == setup_drm_master(f)
        r == setup_drm_resources(f)
        c0 == [has_master |-> TRUE, wgpu_state |-> FALSE]
        w == create_wgpu_resources(c0, f)
    IN  IF ~o.ok THEN [res |-> "err", ctx |-> <<>>, ops |-> o.ops]
        ELSE IF ~m.ok THEN [res |-> "err", ctx |-> <<>>, ops |-> o.ops \o m.ops \o <<"close">>]
        ELSE IF ~r.ok
        THEN [res |-> "err", ctx |-> <<>>, ops |-> o.ops \o m.ops \o r.ops \o <<"close">>]
        ELSE IF ~w.ok
        THEN [res |-> "err", ctx |-> <<>>,
              ops |-> o.ops \o m.ops \o r.ops \o w.ops \o drop_WgpuContext(w.ctx, rf)]
        ELSE [res |-> "ok", ctx |-> <<w.ctx>>, ops |-> o.ops \o m.ops \o r.ops \o w.ops]

\* suspend() that releases ownership without first destroying the surface
suspend_keeps_surface(c, rf) ==
    LET r == release_drm_master(rf)
    IN  IF ~c.has_master THEN [res |-> "ok", ctx |-> c, ops |-> <<>>]
        ELSE IF ~r.ok THEN [res |-> "err", ctx |-> c, ops |-> r.ops]
        ELSE [res |-> "ok", ctx |-> [c EXCEPT !.has_master = FALSE], ops |-> r.ops]

\* suspend() that releases ownership whether or not the flag says it is held
suspend_always_releases(c, rf) ==
    LET d == destroy_wgpu_resources(c)
        r == release_drm_master(rf)
    IN  IF ~r.ok THEN [res |-> "err", ctx |-> d.ctx, ops |-> d.ops \o r.ops]
        ELSE [res |-> "ok", ctx |-> [d.ctx EXCEPT !.has_master = FALSE], ops |-> d.ops \o r.ops]

suspend(c, rf) ==
    LET d == destroy_wgpu_resources(c)
        r == release_drm_master(rf)
    IN  IF ~d.ctx.has_master THEN [res |-> "ok", ctx |-> d.ctx, ops |-> d.ops]
        ELSE IF ~r.ok THEN [res |-> "err", ctx |-> d.ctx, ops |-> d.ops \o r.ops]
        ELSE [res |-> "ok", ctx |-> [d.ctx EXCEPT !.has_master = FALSE], ops |-> d.ops \o r.ops]

resume(c, f) ==
    LET m == IF c.has_master THEN [ok |-> TRUE, ops |-> <<>>] ELSE setup_drm_master(f)
        c1 == [c EXCEPT !.has_master = TRUE]
        w == IF c1.wgpu_state THEN [ok |-> TRUE, ctx |-> c1, ops |-> <<>>]
             ELSE create_wgpu_resources(c1, f)
    IN  IF ~m.ok THEN [res |-> "err", ctx |-> c, ops |-> m.ops]
        ELSE IF ~w.ok THEN [res |-> "err", ctx |-> w.ctx, ops |-> m.ops \o w.ops]
        ELSE [res |-> "ok", ctx |-> w.ctx, ops |-> m.ops \o w.ops]

is_active(c) == c.has_master /\ c.wgpu_state

\* present() that checks ownership only
present_ignores_surface(c, pf) ==
    IF ~c.has_master THEN [res |-> "NotReady", ops |-> <<>>]
    ELSE IF pf THEN [res |-> "err", ops |-> <<"acquire_err">>]
    ELSE [res |-> "ok", ops |-> <<"acquire", "clear", "submit", "present">>]

\* WgpuContext::present(&self): the context itself is never modified
present(c, pf) ==
    IF ~c.wgpu_state THEN [res |-> "NotReady", ops |-> <<>>]
    ELSE IF ~c.has_master THEN [res |-> "NotReady", ops |-> <<>>]
    ELSE IF pf THEN [res |-> "err", ops |-> <<"acquire_err">>]
    ELSE [res |-> "ok", ops |-> <<"acquire", "clear", "submit", "present">>]

-----------------------------------------------------------------------------
(* The Display Context driven by an arbitrary caller: any sequence of      *)
(* construction, suspend(), resume(), present() and drop.                  *)

Init ==
    /\ render_context = <<>>
    /\ kernel = KernelInit
    /\ ops = <<>>
    /\ call = "init"
    /\ res = "ok"
    /\ ncalls = 0
    /\ prev = <<"init", "ok">>
    /\ ctx_dropped = FALSE
    /\ proc = "running"
    /\ rl_pc = "select"
    /\ has_control = FALSE
    /\ control_value = FALSE
    /\ control_sx = TRUE
    /\ rl_changed = TRUE
    /\ in_changed = TRUE
    /\ exit_q = 0
    /\ exit_sx = TRUE
    /\ watcher_pc = "next"
    /\ libinput = "active"
    /\ pressed_keys = {}
    /\ input_pc = "select"
    /\ input_has_control = FALSE
    /\ switch_vt = 0
    /\ events = <<>>
    /\ modes = <<>>
    /\ best_mode = <<>>

CtxNew ==
    /\ ncalls < MaxCalls
    /\ render_context = <<>>
    /\ \E f \in NewFailures, rf \in BOOLEAN :
          LET n == new(f, rf)
          IN  /\ render_context' = n.ctx
              /\ ops' = n.ops
              /\ res' = n.res
              /\ kernel' = Run(kernel, n.ops)
    /\ call' = "new"
    /\ ncalls' = ncalls + 1
    /\ prev' = <<call, res>>
    /\ UNCHANGED <<ctx_dropped, mainVars>>
    /\ UNCHANGED pureVars

CtxSuspend ==
    /\ ncalls < MaxCalls
    /\ render_context # <<>>
    /\ \E rf \in BOOLEAN :
          LET s == suspend(render_context[1], rf)
          IN  /\ render_context' = <<s.ctx>>
              /\ ops' = s.ops
              /\ res' = s.res
              /\ kernel' = Run(kernel, s.ops)
    /\ call' = "suspend"
    /\ ncalls' = ncalls + 1
    /\ prev' = <<call, res>>
    /\ UNCHANGED <<ctx_dropped, mainVars>>
    /\ UNCHANGED pureVars

CtxResume ==
    /\ ncalls < MaxCalls
    /\ render_context # <<>>
    /\ \E f \in NewFailures :
          LET r == resume(render_context[1], f)
          IN  /\ render_context' = <<r.ctx>>
              /\ ops' = r.ops
              /\ res' = r.res
              /\ kernel' = Run(kernel, r.ops)
    /\ call' = "resume"
    /\ ncalls' = ncalls + 1
    /\ prev' = <<call, res>>
    /\ UNCHANGED <<ctx_dropped, mainVars>>
    /\ UNCHANGED pureVars

CtxPresent ==
    /\ ncalls < MaxCalls
    /\ render_context # <<>>
    /\ \E pf \in BOOLEAN :
          LET p == present(render_context[1], pf)
          IN  /\ ops' = p.ops
              /\ res' = p.res
              /\ kernel' = Run(kernel, p.ops)
    /\ render_context' = render_context
    /\ call' = "present"
    /\ ncalls' = ncalls + 1
    /\ prev' = <<call, res>>
    /\ UNCHANGED <<ctx_dropped, mainVars>>
    /\ UNCHANGED pureVars

CtxDrop ==
    /\ ncalls < MaxCalls
    /\ render_context # <<>>
    /\ \E rf \in BOOLEAN :
          LET d == drop_render_context(render_context, rf)
          IN  /\ ops' = d
              /\ kernel' = Run(kernel, d)
    /\ render_context' = <<>>
    /\ res' = "ok"
    /\ call' = "drop"
    /\ ncalls' = ncalls + 1
    /\ prev' = <<call, res>>
    /\ UNCHANGED <<ctx_dropped, mainVars>>
    /\ UNCHANGED pureVars

NextCtx == CtxNew \/ CtxSuspend \/ CtxResume \/ CtxPresent \/ CtxDrop

SpecCtx == Init /\ [][NextCtx]_vars

-----------------------------------------------------------------------------
(* src/src/main.rs: key codes, KeyMap, ModifierState                       *)

KEY_ESC == 1
KEY_LEFTCTRL == 29
KEY_LEFTALT == 56
KEY_F1 == 59
KEY_F2 == 60
KEY_F3 == 61
KEY_F4 == 62
KEY_F5 == 63
KEY_F6 == 64
KEY_F7 == 65
KEY_F8 == 66
KEY_F9 == 67
KEY_RIGHTCTRL == 97
KEY_RIGHTALT == 100

\* the keys the input source reports in this model
Keys == {KEY_ESC, KEY_LEFTCTRL, KEY_RIGHTALT, KEY_F3}

\* KeyMap::new
mappings ==
    (KEY_F1 :> 1) @@ (KEY_F2 :> 2) @@ (KEY_F3 :> 3) @@ (KEY_F4 :> 4) @@ (KEY_F5 :> 5)
    @@ (KEY_F6 :> 6) @@ (KEY_F7 :> 7) @@ (KEY_F8 :> 8) @@ (KEY_F9 :> 9)

\* KeyMap::get_vt: <<>> is None, <<vt>> is Some(vt)
get_vt(key) == IF key \in DOMAIN mappings THEN <<mappings[key]>> ELSE <<>>

\* an update that forgets no key on its release
update_ignores_release(pressed, key, state) ==
    IF state = "Pressed" THEN pressed \cup {key} ELSE pressed

\* ModifierState::update
update(pressed, key, state) ==
    IF state = "Pressed" THEN pressed \cup {key} ELSE pressed \ {key}

is_ctrl_pressed(pressed) == KEY_LEFTCTRL \in pressed \/ KEY_RIGHTCTRL \in pressed

is_alt_pressed(pressed) == KEY_LEFTALT \in pressed \/ KEY_RIGHTALT \in pressed

is_ctrl_alt_pressed(pressed) == is_ctrl_pressed(pressed) /\ is_alt_pressed(pressed)

-----------------------------------------------------------------------------
(* src/src/main.rs: the watchdog task                                      *)

\* sleep(10 s), then exit(-1): no destructor runs, the kernel reclaims the device
Watchdog ==
    /\ proc = "running"
    /\ proc' = "killed"
    /\ ops' = <<"exit">>
    /\ kernel' = Run(kernel, ops')
    /\ call' = "watchdog"
    /\ res' = "err"
    /\ switch_vt' = 0
    /\ UNCHANGED <<render_context, callerVars, ctx_dropped, rl_pc, has_control, exit_q, watchVars,
                   watcherVars, pressed_keys, input_pc, input_has_control,
                   exit_sx, libinput>>
    /\ UNCHANGED pureVars

-----------------------------------------------------------------------------
(* src/src/main.rs: the session-activity watcher task                      *)

\* what suspend()/resume() do to an input source in state li
libinput_after(li, to) == IF li = "shutdown" THEN li ELSE to

\* stream yields true: aquire_session().await?; control_sx.send(true)?;
\* the task then waits for the write lock of modifier_state
WatcherActive ==
    /\ proc = "running" /\ watcher_pc = "next"
    /\ \E ok \in BOOLEAN :
          IF ok
          THEN /\ ops' = <<"aquire_session", "control_send">>
               /\ control_value' = TRUE
               /\ rl_changed' = TRUE
               /\ in_changed' = TRUE
               /\ watcher_pc' = "reset"
               /\ control_sx' = control_sx
               /\ res' = "ok"
          ELSE /\ ops' = <<"aquire_session_err">>
               /\ watcher_pc' = "done"
               /\ control_sx' = FALSE
               /\ res' = "err"
               /\ UNCHANGED <<control_value, rl_changed, in_changed>>
    /\ call' = "watcher"
    /\ switch_vt' = 0
    /\ kernel' = Run(kernel, ops')
    /\ UNCHANGED <<render_context, callerVars, ctx_dropped, loopVars, pressed_keys, input_pc,
                   input_has_control, exit_sx, libinput>>
    /\ UNCHANGED pureVars

\* *modifier_state.write().await = ModifierState::new(); libinput_handle.resume()?;
WatcherReset ==
    /\ proc = "running" /\ watcher_pc = "reset"
    /\ pressed_keys' = {}
    /\ \E ok \in BOOLEAN :
          IF ok
          THEN /\ ops' = <<"libinput_resume">>
               /\ libinput' = libinput_after(libinput, "active")
               /\ watcher_pc' = "next"
               /\ control_sx' = control_sx
               /\ res' = "ok"
          ELSE /\ ops' = <<"libinput_resume_err">>
               /\ libinput' = libinput
               /\ watcher_pc' = "done"
               /\ control_sx' = FALSE
               /\ res' = "err"
    /\ call' = "watcher"
    /\ switch_vt' = 0
    /\ kernel' = Run(kernel, ops')
    /\ UNCHANGED <<render_context, callerVars, ctx_dropped, loopVars, control_value, rl_changed, in_changed,
                   input_pc, input_has_control, exit_sx>>
    /\ UNCHANGED pureVars

\* stream yields false: release_session().await?; control_sx.send(false)?;
WatcherInactive ==
    /\ proc = "running" /\ watcher_pc = "next"
    /\ \E ok \in BOOLEAN :
          IF ok
          THEN /\ ops' = <<"release_session", "control_send">>
               /\ control_value' = FALSE
               /\ rl_changed' = TRUE
               /\ in_changed' = TRUE
               /\ watcher_pc' = "suspend"
               /\ control_sx' = control_sx
               /\ res' = "ok"
          ELSE /\ ops' = <<"release_session_err">>
               /\ watcher_pc' = "done"
               /\ control_sx' = FALSE
               /\ res' = "err"
               /\ UNCHANGED <<control_value, rl_changed, in_changed>>
    /\ call' = "watcher"
    /\ switch_vt' = 0
    /\ kernel' = Run(kernel, ops')
    /\ UNCHANGED <<render_context, callerVars, ctx_dropped, loopVars, pressed_keys, input_pc,
                   input_has_control, exit_sx, libinput>>
    /\ UNCHANGED pureVars

\* libinput_handle.suspend()?; the tasks run in parallel on the runtime's worker
\* threads, so the other tasks can act between the broadcast and this call
WatcherSuspend ==
    /\ proc = "running" /\ watcher_pc = "suspend"
    /\ \E ok \in BOOLEAN :
          IF ok
          THEN /\ ops' = <<"libinput_suspend">>
               /\ libinput' = libinput_after(libinput, "suspended")
               /\ watcher_pc' = "next"
               /\ control_sx' = control_sx
               /\ res' = "ok"
          ELSE /\ ops' = <<"libinput_suspend_err">>
               /\ libinput' = libinput
               /\ watcher_pc' = "done"
               /\ control_sx' = FALSE
               /\ res' = "err"
    /\ call' = "watcher"
    /\ switch_vt' = 0
    /\ kernel' = Run(kernel, ops')
    /\ UNCHANGED <<render_context, callerVars, ctx_dropped, loopVars, control_value, rl_changed,
                   in_changed, pressed_keys, input_pc, input_has_control, exit_sx>>
    /\ UNCHANGED pureVars

\* the stream ends: the task returns Ok(()) and control_sx is dropped
WatcherEnd ==
    /\ proc = "running" /\ watcher_pc = "next"
    /\ watcher_pc' = "done"
    /\ control_sx' = FALSE
    /\ ops' = <<>>
    /\ call' = "watcher"
    /\ res' = "ok"
    /\ switch_vt' = 0
    /\ kernel' = Run(kernel, ops')
    /\ UNCHANGED <<render_context, callerVars, ctx_dropped, loopVars, control_value, rl_changed, in_changed,
                   pressed_keys, input_pc, input_has_control,
                   exit_sx, libinput>>
    /\ UNCHANGED pureVars

-----------------------------------------------------------------------------
(* src/src/main.rs: the input-dispatch task                                *)

\* select! branch `Some(control) = control_stream.next()`
InputControl ==
    /\ proc = "running" /\ input_pc = "select" /\ in_changed
    /\ input_has_control' = control_value
    /\ in_changed' = FALSE
    /\ ops' = <<>>
    /\ call' = "input"
    /\ res' = "ok"
    /\ switch_vt' = 0
    /\ kernel' = Run(kernel, ops')
    /\ UNCHANGED <<render_context, callerVars, ctx_dropped, loopVars, control_value, control_sx, rl_changed,
                   watcherVars, pressed_keys, input_pc, exit_sx, libinput>>
    /\ UNCHANGED pureVars

\* the exit request triggered by a release of KEY_ESC instead of a press
exit_requested_on_release(key, state) == state = "Released" /\ key = KEY_ESC

\* if state == KeyState::Pressed { if key as i32 == KEY_ESC { ... } }
exit_requested(key, state) == state = "Pressed" /\ key = KEY_ESC

\* a combo check satisfied by a Ctrl key alone
combo_target_ctrl_only(pressed, key, hc) ==
    IF is_ctrl_pressed(pressed) /\ get_vt(key) # <<>> /\ hc THEN get_vt(key)[1] ELSE 0

\* the VT the combo check of the key handler asks the seat to switch to (0: none)
combo_target(pressed, key, hc) ==
    IF is_ctrl_alt_pressed(pressed) /\ get_vt(key) # <<>> /\ hc THEN get_vt(key)[1] ELSE 0

\* select! branch `Some(event) = event_stream.next()`, a key event: the modifier
\* update and, on a press, the exit request for KEY_ESC and the combo check
InputKey ==
    /\ proc = "running" /\ input_pc = "select" /\ libinput = "active"
    /\ \E key \in Keys, state \in {"Pressed", "Released"} :
          /\ pressed_keys' = update(pressed_keys, key, state)
          /\ IF exit_requested(key, state)
             THEN /\ libinput' = "shutdown"
                  /\ exit_q' = exit_q + 1
             ELSE UNCHANGED <<libinput, exit_q>>
          /\ switch_vt' = IF state = "Pressed"
                          THEN combo_target(pressed_keys', key, input_has_control)
                          ELSE 0
          /\ ops' = (IF exit_requested(key, state)
                     THEN <<"libinput_shutdown", "exit_send">> ELSE <<>>)
                    \o (IF switch_vt' # 0 THEN <<"switch_session">> ELSE <<>>)
    /\ call' = "input"
    /\ res' = "ok"
    /\ kernel' = Run(kernel, ops')
    /\ UNCHANGED <<render_context, callerVars, ctx_dropped, proc, rl_pc, has_control, watchVars,
                   watcherVars, input_pc, input_has_control, exit_sx>>
    /\ UNCHANGED pureVars

\* the event stream yields Err: break; the task ends and exit_sx is dropped
InputStreamError ==
    /\ proc = "running" /\ input_pc = "select"
    /\ input_pc' = "done"
    /\ exit_sx' = FALSE
    /\ ops' = <<>>
    /\ call' = "input"
    /\ res' = "err"
    /\ switch_vt' = 0
    /\ kernel' = Run(kernel, ops')
    /\ UNCHANGED <<render_context, callerVars, ctx_dropped, loopVars, watchVars, watcherVars, pressed_keys,
                   input_has_control, libinput>>
    /\ UNCHANGED pureVars

-----------------------------------------------------------------------------
(* src/src/main.rs: the render loop of main                                *)

\* a select! that polls the control stream before the exit channel
select_control_first(q, esx, changed, csx) ==
    LET exit_ready == q > 0 \/ ~esx
        control_ready == changed
    IN  IF control_ready THEN "control"
        ELSE IF exit_ready THEN "exit"
        ELSE "pending"

\* a select! whose exit branch completes on a message only, not on a closed channel
select_ignores_closed(q, esx, changed, csx) ==
    LET exit_ready == q > 0
        control_ready == changed
        control_disabled == ~changed /\ ~csx
    IN  IF exit_ready THEN "exit"
        ELSE IF control_ready THEN "control"
        ELSE "pending"

\* tokio::select! { biased; _ = exit_rx.recv() => break,
\*                  Some(control) = control_stream.next() => ..., else => {} }
\* A branch is disabled when its future completes with a value its pattern does
\* not match; `else` runs when every branch is disabled.
select_biased(q, esx, changed, csx) ==
    LET exit_ready == q > 0 \/ ~esx           \* recv() completes: Some(()) or None
        exit_disabled == FALSE                \* the pattern `_` matches both
        control_ready == changed              \* next() completes with Some(value)
        control_disabled == ~changed /\ ~csx  \* next() completes with None
    IN  IF exit_ready THEN "exit"
        ELSE IF control_ready THEN "control"
        ELSE IF exit_disabled /\ control_disabled THEN "else"
        ELSE "pending"

SelectOutcome == select_biased(exit_q, exit_sx, rl_changed, control_sx)

\* the wait point of the loop; on `break` main returns Ok(()) and its locals drop
RenderLoopSelect ==
    /\ proc = "running" /\ rl_pc = "select"
    /\ SelectOutcome # "pending"
    /\ \E rf \in BOOLEAN :
          CASE SelectOutcome = "exit" ->
                  /\ exit_q' = IF exit_q > 0 THEN exit_q - 1 ELSE exit_q
                  /\ ops' = drop_render_context(render_context, rf)
                  /\ render_context' = <<>>
                  /\ rl_pc' = "done"
                  /\ proc' = "exit_ok"
                  /\ UNCHANGED <<has_control, rl_changed>>
            [] SelectOutcome = "control" ->
                  /\ has_control' = control_value
                  /\ rl_changed' = FALSE
                  /\ rl_pc' = "render"
                  /\ ops' = <<>>
                  /\ UNCHANGED <<exit_q, render_context, proc>>
            [] OTHER ->
                  /\ rl_pc' = "render"
                  /\ ops' = <<>>
                  /\ UNCHANGED <<exit_q, render_context, proc, has_control, rl_changed>>
    /\ call' = "select"
    /\ res' = "ok"
    /\ switch_vt' = 0
    /\ kernel' = Run(kernel, ops')
    /\ UNCHANGED <<callerVars, ctx_dropped, control_value, control_sx, in_changed, watcherVars, pressed_keys,
                   input_pc, input_has_control, exit_sx, libinput>>
    /\ UNCHANGED pureVars

\* a render step that does not drop the context when control is lost
render_step_keeps_context(rc, hc, f, pf, rf) ==
    LET n == new(f, rf)
        made == hc /\ rc = <<>>
        rc1 == IF made THEN n.ctx ELSE rc
        ops1 == IF made THEN n.ops ELSE <<>>
        p == IF rc1 # <<>> THEN present(rc1[1], pf) ELSE [res |-> "ok", ops |-> <<>>]
    IN  IF made /\ n.res # "ok" THEN [res |-> "err", ctx |-> <<>>, ops |-> ops1]
        ELSE IF p.res # "ok"
        THEN [res |-> "err", ctx |-> <<>>,
              ops |-> ops1 \o p.ops \o drop_render_context(rc1, rf)]
        ELSE [res |-> "ok", ctx |-> rc1, ops |-> ops1 \o p.ops]

\* a render step that constructs a context whether or not control is held
render_step_builds_without_control(rc, hc, f, pf, rf) ==
    LET n == new(f, rf)
        made == rc = <<>>
        rc1 == IF made THEN n.ctx ELSE rc
        ops1 == IF made THEN n.ops ELSE <<>>
        p == IF rc1 # <<>> THEN present(rc1[1], pf) ELSE [res |-> "ok", ops |-> <<>>]
    IN  IF made /\ n.res # "ok" THEN [res |-> "err", ctx |-> <<>>, ops |-> ops1]
        ELSE IF p.res # "ok"
        THEN [res |-> "err", ctx |-> <<>>,
              ops |-> ops1 \o p.ops \o drop_render_context(rc1, rf)]
        ELSE [res |-> "ok", ctx |-> rc1, ops |-> ops1 \o p.ops]

\* the render step: create or drop the context, then present; a `?` failure
\* returns Err from main, dropping render_context
render_step(rc, hc, f, pf, rf) ==
    LET n == new(f, rf)
        made == hc /\ rc = <<>>
        lost == ~hc /\ rc # <<>>
        rc1 == IF made THEN n.ctx ELSE IF lost THEN <<>> ELSE rc
        ops1 == IF made THEN n.ops ELSE IF lost THEN drop_render_context(rc, rf) ELSE <<>>
        p == IF rc1 # <<>> THEN present(rc1[1], pf) ELSE [res |-> "ok", ops |-> <<>>]
    IN  IF made /\ n.res # "ok" THEN [res |-> "err", ctx |-> <<>>, ops |-> ops1]
        ELSE IF p.res # "ok"
        THEN [res |-> "err", ctx |-> <<>>,
              ops |-> ops1 \o p.ops \o drop_render_context(rc1, rf)]
        ELSE [res |-> "ok", ctx |-> rc1, ops |-> ops1 \o p.ops]

RenderStep ==
    /\ proc = "running" /\ rl_pc = "render"
    /\ \E f \in NewFailures, pf \in BOOLEAN, rf \in BOOLEAN :
          LET r == render_step(render_context, has_control, f, pf, rf)
          IN  /\ render_context' = r.ctx
              /\ ops' = r.ops
              /\ res' = r.res
              /\ proc' = IF r.res = "ok" THEN "running" ELSE "exit_err"
              /\ rl_pc' = IF r.res = "ok" THEN "select" ELSE "done"
    /\ call' = "render"
    /\ switch_vt' = 0
    /\ kernel' = Run(kernel, ops')
    /\ ctx_dropped' = (ctx_dropped \/ (~has_control /\ render_context # <<>>
                                        /\ render_context' = <<>>))
    /\ UNCHANGED <<callerVars, has_control, exit_q, watchVars, watcherVars, pressed_keys,
                   input_pc, input_has_control, exit_sx, libinput>>
    /\ UNCHANGED pureVars

-----------------------------------------------------------------------------

Next ==
    \/ Watchdog
    \/ WatcherActive \/ WatcherReset \/ WatcherInactive \/ WatcherSuspend \/ WatcherEnd
    \/ InputControl \/ InputKey \/ InputStreamError
    \/ RenderLoopSelect \/ RenderStep

Spec == Init /\ [][Next]_vars

\* the tasks are scheduled by the tokio runtime: a task that can run does run;
\* what the seat manager, the input source and the timer do is not assumed
Fairness ==
    /\ WF_vars(RenderLoopSelect) /\ WF_vars(RenderStep)
    /\ WF_vars(WatcherReset) /\ WF_vars(WatcherSuspend)
    /\ WF_vars(InputControl)

FairSpec == Spec /\ Fairness

-----------------------------------------------------------------------------
(* The key handler of the input-dispatch task on its own: any sequence of   *)
(* key events, any control state, and the reset the watcher performs.      *)

\* the keys the input source reports to the key handler checked on its own
AllKeys ==
    {KEY_ESC, KEY_LEFTCTRL, KEY_RIGHTCTRL, KEY_LEFTALT, KEY_RIGHTALT, KEY_F1, KEY_F3, KEY_F9}

\* select! branch `Some(event) = event_stream.next()`, a key event
KeysEvent ==
    /\ proc = "running" /\ input_pc = "select" /\ libinput = "active"
    /\ Len(events) < MaxEvents
    /\ \E key \in AllKeys, state \in {"Pressed", "Released"} :
          /\ events' = Append(events, <<key, state>>)
          /\ pressed_keys' = update(pressed_keys, key, state)
          /\ IF exit_requested(key, state)
             THEN /\ libinput' = "shutdown"
                  /\ exit_q' = exit_q + 1
             ELSE UNCHANGED <<libinput, exit_q>>
          /\ switch_vt' = IF state = "Pressed"
                          THEN combo_target(pressed_keys', key, input_has_control)
                          ELSE 0
          /\ ops' = (IF exit_requested(key, state)
                     THEN <<"libinput_shutdown", "exit_send">> ELSE <<>>)
                    \o (IF switch_vt' # 0 THEN <<"switch_session">> ELSE <<>>)
    /\ call' = "input"
    /\ res' = "ok"
    /\ kernel' = Run(kernel, ops')
    /\ UNCHANGED <<render_context, callerVars, ctx_dropped, proc, rl_pc, has_control, watchVars,
                   watcherVars, input_pc, input_has_control, exit_sx, modes, best_mode>>

\* select! branch `Some(control) = control_stream.next()`, whatever was broadcast
KeysControl ==
    /\ proc = "running" /\ input_pc = "select"
    /\ \E control \in BOOLEAN :
          /\ control # input_has_control
          /\ input_has_control' = control
    /\ ops' = <<>>
    /\ call' = "control"
    /\ res' = "ok"
    /\ switch_vt' = 0
    /\ kernel' = Run(kernel, ops')
    /\ UNCHANGED <<render_context, callerVars, ctx_dropped, loopVars, watchVars, watcherVars,
                   pressed_keys, input_pc, exit_sx, libinput, pureVars>>

\* the watcher, on activation: *modifier_state.write().await = ModifierState::new()
KeysReset ==
    /\ proc = "running"
    /\ pressed_keys' = {}
    /\ events' = <<>>
    /\ ops' = <<>>
    /\ call' = "reset"
    /\ res' = "ok"
    /\ switch_vt' = 0
    /\ kernel' = Run(kernel, ops')
    /\ UNCHANGED <<render_context, callerVars, ctx_dropped, loopVars, watchVars, watcherVars,
                   input_pc, input_has_control, exit_sx, libinput, modes, best_mode>>

NextKeys == KeysEvent \/ KeysControl \/ KeysReset

SpecKeys == Init /\ [][NextKeys]_vars

-----------------------------------------------------------------------------
(* src/src/context.rs: the mode selection of setup_drm_resources on its own *)

\* display_width() and display_height() of the modes enumerated
Dims == {0, 1, 2}

\* a mode: its size and whether its type contains ModeType::DEFAULT
Mode == [w : Dims, h : Dims, default : BOOLEAN]

\* if area > max_area
area_larger(area, max_area) == area > max_area

\* for current_mode in connector.modes.iter().copied() { ... }, from the i-th mode on
RECURSIVE scan_modes(_, _, _, _)
scan_modes(ms, i, best, max_area) ==
    IF i > Len(ms) THEN best
    ELSE IF ms[i].default THEN <<ms[i]>>
    ELSE LET area == ms[i].w * ms[i].h    \* u16 * u16 computed in u32: never wraps
         IN  IF area_larger(area, max_area)
             THEN scan_modes(ms, i + 1, <<ms[i]>>, area)
             ELSE scan_modes(ms, i + 1, best, max_area)

\* let mut best_mode = None; let mut max_area = 0; the loop; best_mode
find_best_mode(ms) == scan_modes(ms, 1, <<>>, 0)

\* the mode selection, made once per device-open, applied to any mode list
SelectMode ==
    /\ call = "init"
    /\ \E n \in 0..MaxModes :
          \E ms \in [1..n -> Mode] :
             /\ modes' = ms
             /\ best_mode' = find_best_mode(ms)
    /\ res' = IF best_mode' = <<>> THEN "err" ELSE "ok"
    /\ call' = "select_mode"
    /\ ops' = <<>>
    /\ kernel' = Run(kernel, ops')
    /\ UNCHANGED <<render_context, callerVars, ctx_dropped, mainVars, events>>

NextModes == SelectMode

SpecModes == Init /\ [][NextModes]_vars

-----------------------------------------------------------------------------
(* Properties of the Display Context                                       *)

\* the context held, when there is one
Ctx == render_context[1]

ReleaseOps == {"drop_master", "drop_master_err"}

ClaimOps == {"set_master", "set_master_err", "create_wgpu", "create_wgpu_err"}

PresentOps == {"acquire", "acquire_err", "clear", "submit", "present"}

Uses(s, set) == \E i \in 1..Len(s) : s[i] \in set

\* C1: in every state reachable by construction, suspend(), resume(), present()
\* and drop, failed calls included, the GPU surface state is present only if
\* the ownership flag is true.
SurfaceOnlyWithOwnership ==
    render_context # <<>> => (Ctx.wgpu_state => Ctx.has_master)

\* a suspend() that failed partway: surface destroyed, release refused
WitnessSurfaceOnlyWithOwnership ==
    /\ call = "suspend" /\ res = "err"
    /\ render_context # <<>> /\ Ctx.has_master /\ ~Ctx.wgpu_state
    /\ Has(ops, "destroy_wgpu")

\* C2: whenever a step releases display ownership, the GPU surface resources
\* have been destroyed by then.
SurfaceDestroyedBeforeRelease ==
    [][\A i \in 1..Len(ops') :
          ops'[i] = "drop_master" => ~Run(kernel, Before(ops', i)).surf]_vars

\* C3: whenever a step closes the device handle while ownership is held, the
\* step has explicitly released (or at least tried to release) ownership first.
ReleasedBeforeClose ==
    [][\A i \in 1..Len(ops') :
          (ops'[i] = "close" /\ Run(kernel, Before(ops', i)).master)
              => Uses(Before(ops', i), ReleaseOps)]_vars

\* C4: present() on a context that is not active fails with NotReady and makes
\* no GPU call; it acquires, clears, submits and presents only on an active
\* context; either way the context and the device are left as they were.
PresentOnlyWhenActive ==
    [][call' = "present" =>
          /\ render_context' = render_context
          /\ kernel' = kernel
          /\ ~is_active(Ctx) => (res' = "NotReady" /\ ops' = <<>>)
          /\ is_active(Ctx) =>
                \/ res' = "ok" /\ ops' = <<"acquire", "clear", "submit", "present">>
                \/ res' = "err" /\ ops' = <<"acquire_err">>]_vars

\* present() called on a context whose surface is gone
WitnessPresentOnlyWhenActive ==
    /\ call = "present" /\ res = "NotReady" /\ ops = <<>>
    /\ render_context # <<>> /\ ~is_active(Ctx)

-----------------------------------------------------------------------------
(* Properties of the session event loop                                    *)

\* the most recent step was a render step that presented a frame
Presented ==
    /\ call = "render" /\ res = "ok"
    /\ render_context # <<>> /\ is_active(Ctx)
    /\ Has(ops, "present")

\* C6: at its wait point, with control held and a context in place, the render
\* loop can always go on to its next render step, whether or not an exit signal
\* or a control-flag change is there to wake it.
RenderNotGatedOnEvents ==
    (proc = "running" /\ rl_pc = "select" /\ has_control /\ render_context # <<>>)
        => SelectOutcome # "pending"

\* C7: from a wait point at which an exit signal is already queued, no step
\* consumes the control flag, constructs a context or presents, and the step
\* the render loop takes terminates it, also when a control update is pending.
ExitWinsRace ==
    [][(proc = "running" /\ rl_pc = "select" /\ exit_q > 0) =>
          /\ has_control' = has_control
          /\ rl_changed => rl_changed'
          /\ rl_pc' # "render"
          /\ ~Has(ops', "open") /\ ~Uses(ops', PresentOps)
          /\ call' = "select" => (rl_pc' = "done" /\ proc' = "exit_ok")]_vars

\* the loop has taken the exit signal and left a control update unconsumed
WitnessExitWinsRace ==
    /\ call = "select" /\ proc = "exit_ok" /\ rl_pc = "done"
    /\ exit_sx /\ exit_q = 0 /\ libinput = "shutdown"
    /\ rl_changed /\ control_value # has_control

\* C8: while the process runs, a has-control broadcast that is not superseded
\* leads to a frame presented on a context; a control-loss that is not
\* superseded leads to the context being destroyed; and a has-control
\* broadcast arriving after a context was destroyed leads to a newly
\* constructed context being presented on.
SessionLifecycle ==
    /\ (proc = "running" /\ control_value /\ rl_changed)
          ~> (Presented \/ ~control_value \/ proc # "running")
    /\ (proc = "running" /\ ~control_value /\ render_context # <<>>)
          ~> (render_context = <<>> \/ control_value \/ proc # "running")
    /\ (proc = "running" /\ control_value /\ rl_changed /\ render_context = <<>> /\ ctx_dropped)
          ~> ((Presented /\ Has(ops, "create_wgpu")) \/ ~control_value \/ proc # "running")

\* after a context was destroyed, a new one has just been constructed and
\* presented on
WitnessSessionLifecycle ==
    /\ Presented /\ Has(ops, "create_wgpu")
    /\ ctx_dropped
    /\ has_control /\ control_value

\* C9: the step that handles a press of KEY_ESC shuts the input source down,
\* queues the exit signal and requests no VT switch, and a queued exit signal
\* leads to the end of the render loop.
ExitKeyShutsDown ==
    /\ [][(call' = "input" /\ KEY_ESC \notin pressed_keys /\ KEY_ESC \in pressed_keys') =>
             /\ ops' = <<"libinput_shutdown", "exit_send">>
             /\ libinput' = "shutdown"
             /\ exit_q' = exit_q + 1
             /\ switch_vt' = 0]_vars
    /\ (exit_q > 0) ~> (proc # "running")

\* KEY_ESC pressed with no modifier held, and the loop ended by the exit signal
WitnessExitKeyShutsDown ==
    /\ pressed_keys = {KEY_ESC}
    /\ libinput = "shutdown" /\ exit_sx
    /\ call = "select" /\ proc = "exit_ok" /\ rl_pc = "done"

\* C10: a step that calls switch_session is taken only while the latest
\* control state broadcast by the watcher is has-control.
SwitchOnlyWithControl ==
    Has(ops, "switch_session") => control_value

-----------------------------------------------------------------------------
(* Properties of the key handler                                           *)

CtrlKeys == {KEY_LEFTCTRL, KEY_RIGHTCTRL}

AltKeys == {KEY_LEFTALT, KEY_RIGHTALT}

\* the key event handled last
LastEvent == events[Len(events)]

\* C11: a switch request is produced only by the press of a function key with
\* a Ctrl key and an Alt key in the held set, and it targets the VT mapped to
\* that key (F1..F9 to 1..9); a function-key press with no Alt key held
\* produces none, whatever the control state.
ComboGating ==
    /\ Has(ops, "switch_session") =>
          /\ events # <<>> /\ LastEvent[2] = "Pressed"
          /\ LastEvent[1] \in KEY_F1..KEY_F9
          /\ switch_vt = LastEvent[1] - KEY_F1 + 1
          /\ pressed_keys \cap CtrlKeys # {}
          /\ pressed_keys \cap AltKeys # {}
    /\ (call = "input" /\ pressed_keys \cap AltKeys = {}) =>
          (~Has(ops, "switch_session") /\ switch_vt = 0)
    /\ switch_vt # 0 <=> Has(ops, "switch_session")
    /\ \A n \in 1..9 : get_vt(KEY_F1 + n - 1) = <<n>>

\* F9 pressed with the right Ctrl and the left Alt held: a switch to VT 9
WitnessComboGating ==
    /\ Has(ops, "switch_session") /\ switch_vt = 9
    /\ input_has_control
    /\ pressed_keys = {KEY_RIGHTCTRL, KEY_LEFTALT, KEY_F9}

\* the keys whose most recent event in es is a press
PressedNotReleased(es) ==
    {k \in AllKeys : \E i \in 1..Len(es) :
        /\ es[i] = <<k, "Pressed">>
        /\ \A j \in (i + 1)..Len(es) : es[j][1] # k}

\* C12: the held set equals the set of keys whose most recent event since the
\* last reset is a press, and it is empty right after a reset.
HeldSetTracksEvents ==
    /\ pressed_keys = PressedNotReleased(events)
    /\ call = "reset" => pressed_keys = {}

\* a key pressed, released and another pressed: only the second is held
WitnessHeldSetTracksEvents ==
    /\ Len(events) = 3
    /\ events[1] = <<KEY_LEFTCTRL, "Pressed">>
    /\ events[2] = <<KEY_LEFTCTRL, "Released">>
    /\ events[3] = <<KEY_RIGHTALT, "Pressed">>
    /\ pressed_keys = {KEY_RIGHTALT}

-----------------------------------------------------------------------------
(* Properties of the mode selection                                        *)

Area(m) == m.w * m.h

\* the positions of the modes flagged preferred/default
Flagged == {i \in 1..Len(modes) : modes[i].default}

\* the first position of a mode of the largest area
FirstLargest ==
    CHOOSE i \in 1..Len(modes) :
        /\ \A j \in 1..Len(modes) : Area(modes[j]) <= Area(modes[i])
        /\ \A j \in 1..(i - 1) : Area(modes[j]) < Area(modes[i])

\* C13: a flagged mode is selected if there is one, whatever its
\* area and position; otherwise the first mode of the largest area is; the
\* selection fails if and only if the mode list is empty.
ModeSelection ==
    /\ Flagged # {} => (best_mode # <<>> /\ best_mode[1].default
                        /\ \E i \in Flagged : best_mode[1] = modes[i])
    /\ (Flagged = {} /\ modes # <<>>) => best_mode = <<modes[FirstLargest]>>
    /\ best_mode = <<>> <=> modes = <<>>

\* what the selection does on every list: the first flagged mode is selected
\* if there is one; otherwise the first mode of the largest area is, provided
\* that area is not zero; the selection fails if and only if the list holds no
\* flagged mode and no mode of non-zero area.
ModeSelectionNonZeroArea ==
    /\ Flagged # {} => (best_mode # <<>> /\ best_mode[1].default
                        /\ \E i \in Flagged :
                              best_mode[1] = modes[i] /\ \A j \in Flagged : i <= j)
    /\ (Flagged = {} /\ \E i \in 1..Len(modes) : Area(modes[i]) > 0)
          => best_mode = <<modes[FirstLargest]>>
    /\ best_mode = <<>> <=>
          (Flagged = {} /\ \A i \in 1..Len(modes) : Area(modes[i]) = 0)
    /\ modes = <<>> => best_mode = <<>>

\* a flagged mode in last position, smaller than the one before it, is selected
WitnessModeSelectionNonZeroArea ==
    /\ Len(modes) = 3 /\ Flagged = {3}
    /\ Area(modes[3]) > 0 /\ Area(modes[3]) < Area(modes[2])
    /\ best_mode = <<modes[3]>>

-----------------------------------------------------------------------------
(* Properties of the tasks and of failure handling                         *)

\* C14: the step of an activation that broadcasts has-control finds the
\* tracker already reset: it holds no key from before the activation that a
\* consumer could see together with has-control.
ResetBeforeBroadcast ==
    [][(Has(ops', "control_send") /\ control_value') => pressed_keys' = {}]_vars

\* C15: a render step in which the construction of the context fails at the
\* creation of the GPU surface leaves the process running, the loop at its wait
\* point and no context, so that a later render step can construct again.
SurfaceFailureNotFatal ==
    Has(ops, "create_wgpu_err") =>
        (proc = "running" /\ rl_pc = "select" /\ render_context = <<>>)

\* C16: from a wait point at which the sender of the exit channel is gone, no
\* step consumes the control flag, constructs a context or presents, the step
\* the render loop takes terminates it, and the loss of the sender leads to
\* the end of the render loop.
SenderDropEndsLoop ==
    /\ [][(proc = "running" /\ rl_pc = "select" /\ ~exit_sx) =>
             /\ has_control' = has_control
             /\ rl_changed => rl_changed'
             /\ rl_pc' # "render"
             /\ ~Has(ops', "open") /\ ~Uses(ops', PresentOps)
             /\ call' = "select" => (rl_pc' = "done" /\ proc' = "exit_ok")]_vars
    /\ (~exit_sx) ~> (proc # "running")

\* the input-dispatch task ended on a stream error with no exit signal queued,
\* and the loop ended leaving a control update unconsumed
WitnessSenderDropEndsLoop ==
    /\ input_pc = "done" /\ ~exit_sx /\ exit_q = 0 /\ libinput = "active"
    /\ call = "select" /\ proc = "exit_ok" /\ rl_pc = "done"
    /\ rl_changed

\* C17: the ownership flag of the context is true exactly when the process
\* holds display ownership of the device, and no ownership is held when there
\* is no context.
OwnershipFlagHonest ==
    /\ render_context # <<>> => (Ctx.has_master <=> kernel.master)
    /\ render_context = <<>> => ~kernel.master

\* C18: the end of the watcher task or of the input-dispatch task with an
\* error leads to the end of the process, with nothing assumed about a later
\* key press or the watchdog timer.
TaskFailureFatal ==
    /\ (call = "watcher" /\ res = "err") ~> (proc # "running")
    /\ (call = "input" /\ res = "err") ~> (proc # "running")

\* C19: the watchdog does not end a process whose render loop holds control,
\* has an active context and is at its wait point after a render step.
WatchdogOnlyOnStall ==
    [][proc' = "killed" =>
          ~(rl_pc = "select" /\ has_control /\ render_context # <<>> /\ is_active(Ctx))]_vars

\* C20: at the wait point that follows a render step a context exists exactly
\* when the loop's has_control is true; a step presents only with has_control
\* true; and a device is opened for a context only while none is open.
ContextIffControl ==
    /\ []((proc = "running" /\ rl_pc = "select") => (render_context # <<>> <=> has_control))
    /\ [](Uses(ops, PresentOps) => has_control)
    /\ [][\A i \in 1..Len(ops') :
             ops'[i] = "open" => ~Run(kernel, Before(ops', i)).fd]_vars

\* a render step without control has just destroyed the context
WitnessContextIffControl ==
    /\ call = "render" /\ res = "ok" /\ proc = "running" /\ rl_pc = "select"
    /\ ~has_control /\ render_context = <<>>
    /\ Has(ops, "close")

====
